---- MODULE Spec2Model ----
(***************************************************************************)
(* The remote state watcher of worker/uniter/remotestate                   *)
(* (src/cloud/fallback_public_cloud.go, lines 277-851): the aggregator     *)
(* loop, its handlers, the Snapshot it owns, the sub-watcher registries,   *)
(* the tomb, and the single consumer of RemoteStateChanged().              *)
(***************************************************************************)
EXTENDS Integers, Sequences, FiniteSets, TLC

\* ------------------------------------------------------------------ bounds
\* Largest value ConfigVersion / LeaderSettingsVersion is driven to.
MaxVersion == 3
\* Select cases the loop may still pick after Kill() before it picks Dying.
MaxAfterKill == 1

\* ------------------------------------------------------- program constants
\* requiredEvents++ is executed eight times before the loop (lines 414-467).
requiredEvents == 8

PrimarySources ==
    {"unit", "service", "config", "relations", "addresses", "storage",
     "leaderSettings", "leadership"}

\* params.ResolvedNone is the zero value of ResolvedMode.
ResolvedNone == "none"

\* ------------------------------------------------------------ environment
\* What the backing store may answer for the unit and its service.
UnitVals ==
    {[life |-> "alive", resolved |-> ResolvedNone],
     [life |-> "alive", resolved |-> "retry-hooks"],
     [life |-> "dying", resolved |-> "no-hooks"]}
ServiceVals ==
    {[url |-> "cs:a", force |-> FALSE], [url |-> "cs:b", force |-> TRUE]}
RelationLives == {"alive", "dying"}
Units == {"u0", "u1"}
Versions == {1, 2}
\* rel.Id() of the relation a key names.
RelId == [r0 |-> 0, r1 |-> 1]

\* The deployments explored: each behaviour runs against one of them.  The
\* first varies the unit, the service and the version counters and delivers
\* the sources' events in every order; the second has service relations, the
\* third has unit storage, and in these two the first events of the sources
\* named in "order" arrive in that order (the other sources' events, and
\* every later event, arrive at any time).
Deployments ==
    {[name |-> "scalars", rels |-> {}, tags |-> {}, unitVals |-> UnitVals,
      serviceVals |-> ServiceVals, maxVersion |-> MaxVersion, order |-> <<>>],
     [name |-> "relations", rels |-> {"r0"}, tags |-> {},
      unitVals |-> {[life |-> "alive", resolved |-> "retry-hooks"]},
      serviceVals |-> {[url |-> "cs:a", force |-> FALSE]}, maxVersion |-> 2,
      order |-> <<"unit", "service", "config", "addresses", "leaderSettings",
                  "storage">>],
     [name |-> "storage", rels |-> {}, tags |-> {"s0"},
      unitVals |-> {[life |-> "alive", resolved |-> "retry-hooks"]},
      serviceVals |-> {[url |-> "cs:a", force |-> FALSE]}, maxVersion |-> 2,
      order |-> <<"unit", "service", "config", "addresses", "leaderSettings",
                  "relations">>]}

\* ------------------------------------------------------------------ state
VARIABLES
    dep,            \* the deployment this behaviour runs against
    pc,             \* position of the loop goroutine
    seen,           \* sources whose seenXChange flag is set
    eventsObserved, \* loop local eventsObserved
    waitLeader,     \* waitLeader channel is non-nil (armed)
    waitMinion,     \* waitMinion channel is non-nil (armed)
    current,        \* w.current, the Snapshot the loop owns
    heap,           \* the Members maps current.Relations values point to
    relations,      \* w.relations: relation key -> relationId of its watcher
    relRunning,     \* relation-units watchers started and not stopped
    relWait,        \* relationsChanged blocked on a new relation's first event
    storageAttachementWatchers, \* w.storageAttachementWatchers (keys)
    storageRunning, \* storage-attachment watchers started and not stopped
    mu,             \* w.mu: "free" or "loop"
    tomb,           \* w.tomb: [dying, dead, reason]
    consumer,       \* the reader of RemoteStateChanged()
    snap,           \* the maps of the Snapshot() value the consumer holds
    hist,           \* history of the run, read by the properties only
    txn             \* the transaction runner and its collections (companion)

vars ==
    <<dep, pc, seen, eventsObserved, waitLeader, waitMinion, current, heap,
      relations, relRunning, relWait, storageAttachementWatchers,
      storageRunning, mu, tomb, consumer, snap, hist, txn>>

\* The variables of the remote state watcher.
watcherVars ==
    <<dep, pc, seen, eventsObserved, waitLeader, waitMinion, current, heap,
      relations, relRunning, relWait, storageAttachementWatchers,
      storageRunning, mu, tomb, consumer, snap, hist>>

\* ---------------------------------------------------------------- helpers
EmptyMap == << >>
MapPut(m, k, v) == [x \in DOMAIN m \cup {k} |-> IF x = k THEN v ELSE m[x]]
MapDelOmitted(m, k) == m
MapDel(m, k) == [x \in DOMAIN m \ {k} |-> m[x]]

NoSnap == [taken |-> FALSE]
NoWait == [active |-> FALSE]
NoSeed == [set |-> FALSE]

\* tomb.Kill(reason): the first non-nil reason is kept; ErrDying never is.
TombKill(t, reason) ==
    [t EXCEPT !.dying = TRUE,
              !.reason = IF reason = "ErrDying" THEN @
                         ELSE IF @ \in {"ErrStillAlive", "nil"} THEN reason
                         ELSE @]

\* Lines 354-356: Wait() is tomb.Wait(), the tomb's reason once it is dead;
\* Stop() (lines 345-348) is Kill() and then Wait().
Wait(t) == t.reason

\* Snapshot(): w.current with fresh Relations and Storage maps; the
\* RelationSnapshot values are copied as they are, Members map pointer
\* included.
Snapshot(cur) ==
    [cur EXCEPT !.Relations = [id \in DOMAIN cur.Relations |-> cur.Relations[id]],
                !.Storage = [t \in DOMAIN cur.Storage |-> cur.Storage[t]]]

\* observedEvent(&flag)
observedEventUnconditional(flag, s, n) == [seen |-> s \cup {flag}, n |-> n + 1]
observedEvent(flag, s, n) ==
    IF flag \in s THEN [seen |-> s, n |-> n]
    ELSE [seen |-> s \cup {flag}, n |-> n + 1]

\* fire()'s test: has the first event of every watcher been observed?
GateOpen == eventsObserved = requiredEvents

\* The handlers' assignments to w.current.
unitChanged(cur, v) == [cur EXCEPT !.Life = v.life, !.ResolvedMode = v.resolved]
serviceChanged(cur, v) ==
    [cur EXCEPT !.CharmURL = v.url, !.ForceCharmUpgrade = v.force]
configChangedNoBump(cur) == cur
configChanged(cur) == [cur EXCEPT !.ConfigVersion = @ + 1]
addressesChanged(cur) == [cur EXCEPT !.ConfigVersion = @ + 1]
leaderSettingsChangedBumpsConfig(cur) == [cur EXCEPT !.ConfigVersion = @ + 1]
leaderSettingsChanged(cur) == [cur EXCEPT !.LeaderSettingsVersion = @ + 1]
leadershipChangedIgnored(cur, isLeader) == cur
leadershipChanged(cur, isLeader) == [cur EXCEPT !.Leader = isLeader]

\* ------------------------------------------------------------------- Init
WatcherInit ==
    /\ dep \in Deployments
    /\ pc = "new"
    /\ seen = {}
    /\ eventsObserved = 0
    /\ waitLeader = FALSE
    /\ waitMinion = FALSE
    /\ current = [Life |-> "", ResolvedMode |-> ResolvedNone, CharmURL |-> "nil",
                  ForceCharmUpgrade |-> FALSE, ConfigVersion |-> 0,
                  LeaderSettingsVersion |-> 0, Leader |-> FALSE,
                  Relations |-> EmptyMap, Storage |-> EmptyMap]
    /\ heap = EmptyMap
    /\ relations = EmptyMap
    /\ relRunning = {}
    /\ relWait = NoWait
    /\ storageAttachementWatchers = {}
    /\ storageRunning = {}
    /\ mu = "free"
    /\ tomb = [dying |-> FALSE, dead |-> FALSE, reason |-> "ErrStillAlive"]
    /\ consumer = "idle"
    /\ snap = NoSnap
    /\ hist = [nConfig |-> 0, nLeaderSettings |-> 0,
               unannounced |-> FALSE, sigConfig |-> 0, sigLeaderSettings |-> 0,
               killed |-> FALSE,
               handledAfterKill |-> 0, sigAfterKill |-> 0,
               lookup |-> "none", returned |-> "none",
               exists |-> {}, removed |-> FALSE, quiet |-> FALSE,
               loopErr |-> "none", seed |-> NoSeed,
               last |-> "none"]

\* No transaction runner is part of the watcher's runs.
NoRunner == [phase |-> "off"]

Init == WatcherInit /\ txn = NoRunner

\* ------------------------------------------------------- loop scaffolding
\* The select of the loop can pick a case.
CanSelect ==
    /\ pc = "select"
    /\ hist.killed => hist.handledAfterKill < MaxAfterKill

LoopReturnKeepsLooping(err, rels, running, h) ==
    /\ pc' = IF GateOpen THEN "fire" ELSE "done"
    /\ seen' = IF GateOpen THEN seen ELSE {}
    /\ eventsObserved' = IF GateOpen THEN eventsObserved ELSE 0
    /\ waitLeader' = (GateOpen /\ waitLeader)
    /\ waitMinion' = (GateOpen /\ waitMinion)
    /\ relWait' = NoWait
    /\ mu' = "free"
    /\ relations' = rels
    /\ relRunning' = running \ DOMAIN rels
    /\ tomb' = [TombKill(tomb, err) EXCEPT !.dead = TRUE]
    /\ hist' = [h EXCEPT !.loopErr = err]
LoopReturnDropsErr(err, rels, running, h) ==
    /\ pc' = "done"
    /\ seen' = {}
    /\ eventsObserved' = 0
    /\ waitLeader' = FALSE
    /\ waitMinion' = FALSE
    /\ relWait' = NoWait
    /\ mu' = "free"
    /\ relations' = rels
    /\ relRunning' = running \ DOMAIN rels
    /\ tomb' = [tomb EXCEPT !.dying = TRUE, !.dead = TRUE]
    /\ hist' = [h EXCEPT !.loopErr = err]
\* loop returns err (h: the history up to the return): its locals are gone, the deferred function stops every
\* watcher of w.relations (rels), the goroutine kills the tomb with err and
\* its deferred tomb.Done() closes Dead().
LoopReturn(err, rels, running, h) ==
    /\ pc' = "done"
    /\ seen' = {}
    /\ eventsObserved' = 0
    /\ waitLeader' = FALSE
    /\ waitMinion' = FALSE
    /\ relWait' = NoWait
    /\ mu' = "free"
    /\ relations' = rels
    /\ relRunning' = running \ DOMAIN rels
    /\ tomb' = [TombKill(tomb, err) EXCEPT !.dead = TRUE]
    /\ hist' = [h EXCEPT !.loopErr = err]

\* The environment can deliver an event of src now.
Deliverable(src) ==
    \A i \in 1..Len(dep.order) :
        dep.order[i] = src => \A j \in 1..(i - 1) : dep.order[j] \in seen

\* A handler returned nil for an event of src: observedEvent, then on to fire.
Observed(src) ==
    LET o == observedEvent(src, seen, eventsObserved) IN
    /\ seen' = o.seen
    /\ eventsObserved' = o.n
    /\ pc' = "fire"

\* History of a handled select case; changed: the handler changed the
\* Snapshot (w.current or a Members map).  last: the handler that ran, if it
\* was leadershipChanged or one of those that work on the Relations or the
\* Storage map.
Handled(h, src, changed) ==
    [h EXCEPT !.quiet = @ /\ ~changed,
              !.last = IF src \in {"relations", "relationUnits", "storage",
                                    "leadership"}
                       THEN src ELSE "none",
              !.handledAfterKill = IF h.killed THEN @ + 1 ELSE @,
              !.nConfig = IF src \in {"config", "addresses"} THEN @ + 1 ELSE @,
              !.nLeaderSettings = IF src = "leaderSettings" THEN @ + 1 ELSE @]

\* Lines 387-403: init(); lookup is what w.st.Unit or w.unit.Service
\* answered ("nil": both succeeded).
initUntranslated(lookup) == lookup
init(lookup) ==
    IF lookup \in {"notFound", "unauthorized"} THEN "ErrTerminateAgent"
    ELSE lookup

\* The RemoteStateWatcher has been returned to the caller.
WatcherExists == pc \notin {"new", "noWatcher"}

\* Lines 319-343: NewWatcher.  If init fails it returns no watcher and the
\* error, and the loop goroutine is never started.
NewWatcher ==
    /\ pc = "new"
    /\ \E lookup \in {"nil", "notFound", "unauthorized", "storeErr"} :
         LET err == init(lookup) IN
         IF err = "nil"
         THEN /\ pc' = "start"
              /\ hist' = [hist EXCEPT !.lookup = lookup, !.returned = "watcher"]
         ELSE /\ pc' = "noWatcher"
              /\ hist' = [hist EXCEPT !.lookup = lookup, !.returned = err]
    /\ UNCHANGED <<dep, seen, eventsObserved, waitLeader, waitMinion, current, heap,
                   relations, relRunning, relWait, storageAttachementWatchers,
                   storageRunning, mu, tomb, consumer, snap>>
    /\ UNCHANGED txn

\* The watchers of lines 409-462 are created; any Watch call may fail.
StartWatchers ==
    /\ pc = "start"
    /\ \/ /\ pc' = "claim"
          /\ UNCHANGED <<seen, eventsObserved, waitLeader, waitMinion, relWait, mu,
                         relations, relRunning, tomb, hist>>
       \/ LoopReturn("watchErr", relations, relRunning, hist)
    /\ UNCHANGED <<dep, current, heap, storageAttachementWatchers, storageRunning,
                   consumer, snap>>
    /\ UNCHANGED txn

\* Lines 497-511: the initial leadership claim.
ClaimLeaderReady ==
    /\ pc = "claim"
    /\ \E isLeader \in BOOLEAN :
         /\ current' = leadershipChanged(current, isLeader)
         /\ waitMinion' = isLeader
         /\ waitLeader' = ~isLeader
    /\ LET o == observedEvent("leadership", seen, eventsObserved) IN
         seen' = o.seen /\ eventsObserved' = o.n
    /\ pc' = "select"
    /\ UNCHANGED <<dep, heap, relations, relRunning, relWait,
                   storageAttachementWatchers, storageRunning, mu, tomb,
                   consumer, snap, hist>>
    /\ UNCHANGED txn

ClaimLeaderDying ==
    /\ pc = "claim"
    /\ tomb.dying
    /\ LoopReturn("ErrDying", relations, relRunning, hist)
    /\ UNCHANGED <<dep, current, heap, storageAttachementWatchers, storageRunning,
                   consumer, snap>>
    /\ UNCHANGED txn

\* Lines 515-516.
DyingCaseFallsThrough ==
    /\ pc = "select"
    /\ tomb.dying
    /\ pc' = "fire"
    /\ UNCHANGED <<dep, seen, eventsObserved, waitLeader, waitMinion, current, heap,
                   relations, relRunning, relWait, storageAttachementWatchers,
                   storageRunning, mu, tomb, consumer, snap, hist>>
    /\ UNCHANGED txn
DyingCase ==
    /\ pc = "select"
    /\ tomb.dying
    /\ LoopReturn("ErrDying", relations, relRunning, hist)
    /\ UNCHANGED <<dep, current, heap, storageAttachementWatchers, storageRunning,
                   consumer, snap>>
    /\ UNCHANGED txn

\* The primary sources that are watchers with a Changes() channel, and
\* watcher.EnsureErr of each: the error of the adapter whose channel closed.
ChannelSources == PrimarySources \ {"leadership"}
EnsureErr ==
    [unit |-> "unitw.Err", service |-> "servicew.Err", config |-> "configw.Err",
     addresses |-> "addressesw.Err", leaderSettings |-> "leaderSettingsw.Err",
     relations |-> "relationsw.Err", storage |-> "storagew.Err"]

\* A primary watcher's Changes() channel is closed: return EnsureErr(w).
SourceClosedCountsAsEvent ==
    /\ CanSelect
    /\ \E src \in ChannelSources :
         /\ Observed(src)
         /\ tomb' = [TombKill(tomb, EnsureErr[src]) EXCEPT !.dead = TRUE]
         /\ hist' = [hist EXCEPT !.loopErr = EnsureErr[src]]
    /\ UNCHANGED <<dep, waitLeader, waitMinion, current, heap, relations,
                   relRunning, relWait, storageAttachementWatchers,
                   storageRunning, mu, consumer, snap>>
    /\ UNCHANGED txn
SourceClosed ==
    /\ CanSelect
    /\ \E src \in ChannelSources :
         LoopReturn(EnsureErr[src], relations, relRunning, hist)
    /\ UNCHANGED <<dep, current, heap, storageAttachementWatchers, storageRunning,
                   consumer, snap>>
    /\ UNCHANGED txn

\* What a primary case leaves alone when its handler touches w.current only.
ScalarFrame ==
    UNCHANGED <<dep, waitLeader, waitMinion, heap, relations, relRunning, relWait,
                storageAttachementWatchers, storageRunning, mu, tomb, consumer,
                snap>>

StoreErrors == {"notFound", "unauthorized", "storeErr"}

\* Lines 626-632 and 642-648: a call of unitChanged or serviceChanged on
\* the backing store failed with e, which the loop returns.
RefreshFails ==
    /\ CanSelect
    /\ \E e \in StoreErrors : LoopReturn(e, relations, relRunning, hist)
    /\ UNCHANGED <<dep, current, heap, storageAttachementWatchers, storageRunning,
                   consumer, snap>>
    /\ UNCHANGED txn

\* Lines 518-526 and 625-638.
UnitCase ==
    /\ CanSelect
    /\ Deliverable("unit")
    /\ \E v \in dep.unitVals : current' = unitChanged(current, v)
    /\ Observed("unit")
    /\ hist' = Handled(hist, "unit", current' # current)
    /\ ScalarFrame
    /\ UNCHANGED txn

\* Lines 528-536 and 641-654.
ServiceCase ==
    /\ CanSelect
    /\ Deliverable("service")
    /\ \E v \in dep.serviceVals : current' = serviceChanged(current, v)
    /\ Observed("service")
    /\ hist' = Handled(hist, "service", current' # current)
    /\ ScalarFrame
    /\ UNCHANGED txn

\* Lines 538-546 and 656-661.
ConfigCase ==
    /\ CanSelect
    /\ Deliverable("config")
    /\ hist.nConfig < dep.maxVersion
    /\ current' = configChanged(current)
    /\ Observed("config")
    /\ hist' = Handled(hist, "config", current' # current)
    /\ ScalarFrame
    /\ UNCHANGED txn

\* Lines 548-556 and 663-668.
AddressesCase ==
    /\ CanSelect
    /\ Deliverable("addresses")
    /\ hist.nConfig < dep.maxVersion
    /\ current' = addressesChanged(current)
    /\ Observed("addresses")
    /\ hist' = Handled(hist, "addresses", current' # current)
    /\ ScalarFrame
    /\ UNCHANGED txn

\* Lines 558-566 and 670-675.
LeaderSettingsCase ==
    /\ CanSelect
    /\ Deliverable("leaderSettings")
    /\ hist.nLeaderSettings < dep.maxVersion - 1
    /\ current' = leaderSettingsChanged(current)
    /\ Observed("leaderSettings")
    /\ hist' = Handled(hist, "leaderSettings", current' # current)
    /\ ScalarFrame
    /\ UNCHANGED txn

\* Lines 588-594.
WaitMinionCase ==
    /\ CanSelect
    /\ waitMinion
    /\ current' = leadershipChanged(current, FALSE)
    /\ waitMinion' = FALSE
    /\ waitLeader' = TRUE
    /\ pc' = "fire"
    /\ hist' = Handled(hist, "leadership", current' # current)
    /\ UNCHANGED <<dep, seen, eventsObserved, heap, relations, relRunning, relWait,
                   storageAttachementWatchers, storageRunning, mu, tomb, consumer,
                   snap>>
    /\ UNCHANGED txn

\* Lines 596-602.
WaitLeaderCase ==
    /\ CanSelect
    /\ waitLeader
    /\ current' = leadershipChanged(current, TRUE)
    /\ waitLeader' = FALSE
    /\ waitMinion' = TRUE
    /\ pc' = "fire"
    /\ hist' = Handled(hist, "leadership", current' # current)
    /\ UNCHANGED <<dep, seen, eventsObserved, heap, relations, relRunning, relWait,
                   storageAttachementWatchers, storageRunning, mu, tomb, consumer,
                   snap>>
    /\ UNCHANGED txn

\* Lines 479-487 and 620: fire().  w.out is unbuffered (line 327), so the
\* send of the select succeeds only if the consumer is blocked in a receive.
\* The history forgets the seed of a relation the handled case added and
\* which case it was.
FireStaysInFire ==
    /\ pc = "fire"
    /\ pc' = IF GateOpen /\ consumer = "receiving" THEN "fire" ELSE "select"
    /\ consumer' = IF GateOpen /\ consumer = "receiving" THEN "signalled"
                   ELSE consumer
    /\ hist' = IF GateOpen /\ consumer = "receiving"
               THEN [hist EXCEPT !.unannounced = FALSE, !.quiet = TRUE,
                                 !.seed = NoSeed, !.last = "none",
                                 !.sigConfig = hist.nConfig,
                                 !.sigLeaderSettings = hist.nLeaderSettings,
                                 !.sigAfterKill = IF hist.killed THEN @ + 1 ELSE @]
               ELSE [hist EXCEPT !.unannounced = @ \/ GateOpen,
                                 !.seed = NoSeed, !.last = "none"]
    /\ UNCHANGED <<dep, seen, eventsObserved, waitLeader, waitMinion, current,
                   heap, relations, relRunning, relWait,
                   storageAttachementWatchers, storageRunning, mu, tomb, snap>>
    /\ UNCHANGED txn

Fire ==
    /\ pc = "fire"
    /\ pc' = "select"
    /\ IF GateOpen /\ consumer = "receiving"
       THEN /\ consumer' = "signalled"
            /\ hist' = [hist EXCEPT !.unannounced = FALSE,
                                    !.quiet = TRUE,
                                    !.seed = NoSeed, !.last = "none",
                                    !.sigConfig = hist.nConfig,
                                    !.sigLeaderSettings = hist.nLeaderSettings,
                                    !.sigAfterKill = IF hist.killed THEN @ + 1 ELSE @]
       ELSE /\ consumer' = consumer
            /\ hist' = [hist EXCEPT !.unannounced = @ \/ GateOpen,
                                    !.seed = NoSeed, !.last = "none"]
    /\ UNCHANGED <<dep, seen, eventsObserved, waitLeader, waitMinion, current, heap,
                   relations, relRunning, relWait, storageAttachementWatchers,
                   storageRunning, mu, tomb, snap>>
    /\ UNCHANGED txn

\* ------------------------------------------------------- external callers
\* Lines 358-360: Kill().
Kill ==
    /\ WatcherExists
    /\ tomb' = TombKill(tomb, "nil")
    /\ hist' = IF hist.killed \/ tomb.dead THEN hist
               ELSE [hist EXCEPT !.killed = TRUE]
    /\ UNCHANGED <<dep, pc, seen, eventsObserved, waitLeader, waitMinion, current,
                   heap, relations, relRunning, relWait,
                   storageAttachementWatchers, storageRunning, mu, consumer, snap>>
    /\ UNCHANGED txn

\* Lines 381-385: ClearResolvedMode().
ClearResolvedModeAlsoFires ==
    /\ WatcherExists
    /\ mu = "free"
    /\ current' = [current EXCEPT !.ResolvedMode = ResolvedNone]
    /\ consumer' = IF consumer = "receiving" THEN "signalled" ELSE consumer
    /\ hist' = [hist EXCEPT !.quiet = @ /\ current' = current]
    /\ UNCHANGED <<dep, pc, seen, eventsObserved, waitLeader, waitMinion, heap,
                   relations, relRunning, relWait, storageAttachementWatchers,
                   storageRunning, mu, tomb, snap>>
    /\ UNCHANGED txn
ClearResolvedMode ==
    /\ WatcherExists
    /\ mu = "free"
    /\ current' = [current EXCEPT !.ResolvedMode = ResolvedNone]
    /\ hist' = [hist EXCEPT !.quiet = @ /\ current' = current]
    /\ UNCHANGED <<dep, pc, seen, eventsObserved, waitLeader, waitMinion, heap,
                   relations, relRunning, relWait, storageAttachementWatchers,
                   storageRunning, mu, tomb, consumer, snap>>
    /\ UNCHANGED txn

\* The Members maps still referenced by w.current or by the held Snapshot.
Referenced(cur, sn) ==
    {cur.Relations[id].Members : id \in DOMAIN cur.Relations}
    \cup (IF sn.taken
          THEN {sn.Relations[id].Members : id \in DOMAIN sn.Relations}
          ELSE {})
Collect(h, cur, sn) == [a \in DOMAIN h \cap Referenced(cur, sn) |-> h[a]]

\* The consumer blocks in a receive on RemoteStateChanged(); it lets go of
\* the Snapshot it held.
ConsumerReceive ==
    /\ WatcherExists
    /\ consumer = "idle"
    /\ consumer' = "receiving"
    /\ snap' = NoSnap
    /\ heap' = Collect(heap, current, NoSnap)
    /\ UNCHANGED <<dep, pc, seen, eventsObserved, waitLeader, waitMinion, current,
                   relations, relRunning, relWait, storageAttachementWatchers,
                   storageRunning, mu, tomb, hist>>
    /\ UNCHANGED txn

\* Lines 366-379: after a signal the consumer calls Snapshot() and keeps the
\* Relations and Storage maps of the value returned.
ConsumerSnapshot ==
    /\ consumer = "signalled"
    /\ mu = "free"
    /\ consumer' = "idle"
    /\ LET s == Snapshot(current) IN
         snap' = [taken |-> TRUE, Relations |-> s.Relations, Storage |-> s.Storage]
    /\ hist' = [hist EXCEPT !.unannounced = FALSE, !.sigConfig = 0,
                            !.sigLeaderSettings = 0]
    /\ UNCHANGED <<dep, pc, seen, eventsObserved, waitLeader, waitMinion, current,
                   heap, relations, relRunning, relWait,
                   storageAttachementWatchers, storageRunning, mu, tomb>>
    /\ UNCHANGED txn

\* ------------------------------------------------- relations and storage
\* The key lists a strings watcher may deliver: no key twice.
KeyLists(S) ==
    {<<>>} \cup {<<k>> : k \in S}
    \cup {p \in S \X S : p[1] # p[2]}

\* Units -> settings version, for some of the units.
MemberMaps == UNION {[S -> Versions] : S \in SUBSET Units}

\* A Members map is allocated where no live reference points.
Addrs == 1..4
NewAddr(h) == CHOOSE a \in Addrs \ DOMAIN h : \A b \in Addrs \ DOMAIN h : a <= b

\* What the calls relationsChanged makes for one key may answer: the
\* relation's life; not found or unauthorized (with the tracked watcher's
\* Stop failing or not); another error; or WatchRelationUnits failing.
RelAnswers ==
    RelationLives \cup {"notFound", "unauthorized", "stopFails", "storeErr",
                        "watchFails"}

\* Lines 704-708: the relation is tracked; the copy of its RelationSnapshot
\* gets the relation's life and is stored back.
refreshLifeOmitted(relationSnapshot, life) == relationSnapshot
refreshLife(relationSnapshot, life) == [relationSnapshot EXCEPT !.Life = life]

\* Lines 688-733, for the keys left, up to the first return or to the select
\* of line 718.  s = [cur, heap, relations, running].
RECURSIVE relationsChanged(_, _, _)
relationsChanged(keys, ans, s) ==
    IF keys = <<>> THEN [s |-> s, status |-> "nil"]
    ELSE
        LET k == Head(keys)
            a == ans[k]
            tracked == k \in DOMAIN s.relations
        IN  IF a \in {"notFound", "unauthorized", "stopFails"}
            THEN IF ~tracked THEN relationsChanged(Tail(keys), ans, s)
                 ELSE IF a = "stopFails"
                 THEN [s |-> [s EXCEPT !.running = @ \ {k}],
                       status |-> "stopErr"]
                 ELSE relationsChanged(Tail(keys), ans,
                        [s EXCEPT !.running = @ \ {k},
                                  !.relations = MapDel(@, k),
                                  !.cur.Relations = MapDel(@, s.relations[k])])
            ELSE IF a = "storeErr" THEN [s |-> s, status |-> "storeErr"]
            ELSE IF tracked
            THEN relationsChanged(Tail(keys), ans,
                   [s EXCEPT !.cur.Relations[RelId[k]] =
                       refreshLife(@, IF a = "watchFails" THEN "alive" ELSE a)])
            ELSE IF a = "watchFails" THEN [s |-> s, status |-> "watchErr"]
            ELSE [s |-> [s EXCEPT !.running = @ \cup {k}],
                  status |-> "wait",
                  wait |-> [active |-> TRUE, key |-> k, life |-> a,
                            rest |-> Tail(keys)]]

\* The end of a run of relationsChanged: it returned nil, it returned an
\* error, or it blocks in the select of line 718 with w.mu held.  h: the
\* history up to here.
RelationsOutcome(r, h) ==
    /\ current' = r.s.cur
    /\ heap' = Collect(r.s.heap, r.s.cur, snap)
    /\ IF r.status = "nil"
       THEN /\ relations' = r.s.relations
            /\ relRunning' = r.s.running
            /\ relWait' = NoWait
            /\ mu' = "free"
            /\ Observed("relations")
            /\ hist' = [Handled(hist, "relations",
                                 r.s.cur # current \/ r.s.heap # heap)
                          EXCEPT !.seed = h.seed]
            /\ UNCHANGED <<waitLeader, waitMinion, tomb>>
       ELSE IF r.status = "wait"
       THEN /\ relations' = r.s.relations
            /\ relRunning' = r.s.running
            /\ relWait' = r.wait
            /\ mu' = "loop"
            /\ pc' = "relWait"
            /\ hist' = [h EXCEPT !.quiet =
                            @ /\ r.s.cur = current /\ r.s.heap = heap]
            /\ UNCHANGED <<seen, eventsObserved, waitLeader, waitMinion, tomb>>
       ELSE LoopReturn(r.status, r.s.relations, r.s.running, h)
    /\ UNCHANGED <<dep, storageAttachementWatchers, storageRunning, consumer,
                   snap>>

RelState == [cur |-> current, heap |-> heap, relations |-> relations,
             running |-> relRunning]

\* Lines 568-576 and 685-736.
RelationsCase ==
    /\ CanSelect
    /\ Deliverable("relations")
    /\ \E keys \in KeyLists(dep.rels) : \E ans \in [dep.rels -> RelAnswers] :
         RelationsOutcome(relationsChanged(keys, ans, RelState),
                          [hist EXCEPT !.seed = NoSeed])
    /\ UNCHANGED txn

\* Lines 725-727: Members of the new RelationSnapshot, from the Changed
\* set (unit -> settings version) of the watcher's first event.
seedMembersEmpty(changed) == EmptyMap
seedMembers(changed) == [u \in DOMAIN changed |-> changed[u]]

\* Lines 721-732: the new relation's watcher delivers its first event; the
\* snapshot is seeded and stored, the watcher registered, and the loop over
\* the keys goes on.
RelationsInitialEvent ==
    /\ pc = "relWait"
    /\ \E changed \in MemberMaps : \E ans \in [dep.rels -> RelAnswers] :
         LET a == NewAddr(heap)
             s == [cur |-> [current EXCEPT !.Relations =
                              MapPut(@, RelId[relWait.key],
                                     [Life |-> relWait.life, Members |-> a])],
                   heap |-> MapPut(heap, a, seedMembers(changed)),
                   relations |-> MapPut(relations, relWait.key,
                                        RelId[relWait.key]),
                   running |-> relRunning]
         IN  RelationsOutcome(relationsChanged(relWait.rest, ans, s),
                 [hist EXCEPT !.seed = [set |-> TRUE, key |-> relWait.key,
                                        life |-> relWait.life,
                                        changed |-> changed]])
    /\ UNCHANGED txn

\* Lines 722-724: the new watcher's channel is closed; it has stopped.
RelationsInitialClosed ==
    /\ pc = "relWait"
    /\ LoopReturn("watcherErr", relations, relRunning \ {relWait.key}, hist)
    /\ UNCHANGED <<dep, current, heap, storageAttachementWatchers, storageRunning,
                   consumer, snap>>
    /\ UNCHANGED txn

\* Lines 719-720: the tomb is dying while relationsChanged waits.
RelationsWaitIgnoresDying ==
    /\ pc = "relWait"
    /\ tomb.dying
    /\ UNCHANGED vars
RelationsWaitDying ==
    /\ pc = "relWait"
    /\ tomb.dying
    /\ LoopReturn("ErrDying", relations, relRunning, hist)
    /\ UNCHANGED <<dep, current, heap, storageAttachementWatchers, storageRunning,
                   consumer, snap>>
    /\ UNCHANGED txn

\* Lines 739-753: snapshot is a copy of the map's value, snapshot.Members
\* is the map the value points to.
relationUnitsChangedDepartedFirst(cur, h, change) ==
    IF change.relationId \notin DOMAIN cur.Relations THEN h
    ELSE LET a == cur.Relations[change.relationId].Members
             kept == [u \in DOMAIN h[a] \ change.Departed |-> h[a][u]]
         IN  [h EXCEPT ![a] = [u \in DOMAIN kept \cup DOMAIN change.Changed |->
                                 IF u \in DOMAIN change.Changed
                                 THEN change.Changed[u] ELSE kept[u]]]
relationUnitsChanged(cur, h, change) ==
    IF change.relationId \notin DOMAIN cur.Relations THEN h
    ELSE LET a == cur.Relations[change.relationId].Members
             merged == [u \in DOMAIN h[a] \cup DOMAIN change.Changed |->
                          IF u \in DOMAIN change.Changed THEN change.Changed[u]
                          ELSE h[a][u]]
         IN  [h EXCEPT ![a] = [u \in DOMAIN merged \ change.Departed |-> merged[u]]]

\* Lines 612-616: a running, registered relation-units watcher sends a change.
RelationUnitsCase ==
    /\ CanSelect
    /\ \E k \in DOMAIN relations \cap relRunning :
       \E changed \in MemberMaps : \E departed \in SUBSET Units :
         heap' = relationUnitsChanged(current, heap,
                    [relationId |-> relations[k], Changed |-> changed,
                     Departed |-> departed])
    /\ pc' = "fire"
    /\ hist' = Handled(hist, "relationUnits", heap' # heap)
    /\ UNCHANGED <<dep, seen, eventsObserved, waitLeader, waitMinion, current,
                   relations, relRunning, relWait, storageAttachementWatchers,
                   storageRunning, mu, tomb, consumer, snap>>
    /\ UNCHANGED txn

\* What StorageAttachmentLife and the watcher calls may answer for one tag.
StorageAnswers ==
    RelationLives \cup {"notFound", "unauthorized", "startFails", "stopFails"}

\* errors.Annotatef(err, msg): nil stays nil, an error is wrapped.
Annotatef(err, msg) == IF err = "nil" THEN "nil" ELSE msg \o ": " \o err

\* Lines 816-822: the result is neither ok nor not-found.  err, the error
\* of the StorageAttachmentLife call (nil here), is logged; result.Error is
\* annotated and returned.
resultErrorStale(resErr, err) == Annotatef(err, "getting life")
resultError(resErr, err) == Annotatef(resErr, "getting life")

\* Lines 842-850, for a registered tag: the watcher is taken out of
\* w.storageAttachementWatchers and stopped.
stopStorageAttachmentWatcherKeepsIt(s, tag) == [s EXCEPT !.running = @ \ {tag}]
stopStorageAttachmentWatcher(s, tag) ==
    [s EXCEPT !.watchers = @ \ {tag}, !.running = @ \ {tag}]

\* Lines 786-823.  s = [cur, watchers, running].
RECURSIVE storageChanged(_, _, _)
storageChanged(keys, ans, s) ==
    IF keys = <<>> THEN [s |-> s, status |-> "nil"]
    ELSE
        LET tag == Head(keys)
            a == ans[tag]
            life == IF a = "startFails" THEN "alive" ELSE a
            upsert == IF tag \in DOMAIN s.cur.Storage
                      THEN [s.cur.Storage[tag] EXCEPT !.Life = life]
                      ELSE [Tag |-> tag, Life |-> life, Kind |-> "unknown",
                            Location |-> "", Attached |-> FALSE]
            stored == [s EXCEPT !.cur.Storage = MapPut(@, tag, upsert)]
            dropped == [s EXCEPT !.cur.Storage = MapDel(@, tag)]
        IN  IF a \in RelationLives \cup {"startFails"}
            THEN IF tag \in s.watchers
                 THEN storageChanged(Tail(keys), ans, stored)
                 ELSE IF a = "startFails"
                 THEN [s |-> stored, status |-> "startErr"]
                 ELSE storageChanged(Tail(keys), ans,
                        [stored EXCEPT !.watchers = @ \cup {tag},
                                       !.running = @ \cup {tag}])
            ELSE IF a \in {"notFound", "stopFails"}
            THEN IF tag \notin s.watchers
                 THEN storageChanged(Tail(keys), ans, dropped)
                 ELSE IF a = "stopFails"
                 THEN [s |-> stopStorageAttachmentWatcher(dropped, tag),
                       status |-> "stopErr"]
                 ELSE storageChanged(Tail(keys), ans,
                        stopStorageAttachmentWatcher(dropped, tag))
            ELSE [s |-> s, status |-> resultError(a, "nil")]

\* History: the tags the store last reported as existing, after the batch of
\* StorageAttachmentLife results ans for keys.
StorageReported(h, keys, ans) ==
    LET named == {keys[i] : i \in 1..Len(keys)} IN
    [h EXCEPT !.exists =
        (@ \cup {t \in named : ans[t] \in RelationLives \cup {"startFails"}})
        \ {t \in named : ans[t] \in {"notFound", "stopFails"}}]

\* Lines 578-586 and 768-826.
StorageCase ==
    /\ CanSelect
    /\ Deliverable("storage")
    /\ \E keys \in KeyLists(dep.tags) : \E ans \in [dep.tags -> StorageAnswers] :
         LET r == storageChanged(keys, ans,
                    [cur |-> current, watchers |-> storageAttachementWatchers,
                     running |-> storageRunning])
         IN  /\ current' = r.s.cur
             /\ storageAttachementWatchers' = r.s.watchers
             /\ storageRunning' = r.s.running
             /\ IF r.status = "nil"
                THEN /\ Observed("storage")
                     /\ hist' = Handled(StorageReported(hist, keys, ans),
                                        "storage", r.s.cur # current)
                     /\ UNCHANGED <<waitLeader, waitMinion, relWait, mu, relations,
                                    relRunning, tomb>>
                ELSE LoopReturn(r.status, relations, relRunning,
                                StorageReported(hist, keys, ans))
    /\ UNCHANGED <<dep, heap, consumer, snap>>
    /\ UNCHANGED txn

\* Lines 780-783: StorageAttachmentLife itself fails.
StorageLifeFails ==
    /\ CanSelect
    /\ Deliverable("storage")
    /\ LoopReturn("storeErr", relations, relRunning, hist)
    /\ UNCHANGED <<dep, current, heap, storageAttachementWatchers, storageRunning,
                   consumer, snap>>
    /\ UNCHANGED txn

\* Lines 756-765.
storageAttachmentChangedDeletes(cur, event) ==
    [cur EXCEPT !.Storage = MapDel(@, event.StorageSnapshot.Tag)]
storageAttachmentChanged(cur, event) ==
    IF event.remove
    THEN [cur EXCEPT !.Storage = MapDel(@, event.StorageSnapshot.Tag)]
    ELSE [cur EXCEPT !.Storage =
            MapPut(@, event.StorageSnapshot.Tag, event.StorageSnapshot)]

\* The events the attachment watcher of tag may send.
AttachmentEvents(tag) ==
    {[remove |-> TRUE, StorageSnapshot |-> [Tag |-> tag]]}
    \cup {[remove |-> FALSE,
           StorageSnapshot |-> [Tag |-> tag, Life |-> l, Kind |-> "block",
                                Location |-> "/dev/sdb", Attached |-> TRUE]]
          : l \in RelationLives}

\* Lines 604-610: a running storage-attachment watcher sends an event.
StorageAttachmentCase ==
    /\ CanSelect
    /\ \E tag \in storageRunning : \E event \in AttachmentEvents(tag) :
         /\ current' = storageAttachmentChanged(current, event)
         /\ hist' = Handled(
                [hist EXCEPT !.exists = IF event.remove THEN @ \ {tag}
                                        ELSE @ \cup {tag},
                             !.removed = @ \/ event.remove],
                "storageAttachment", current' # current)
    /\ pc' = "fire"
    /\ UNCHANGED <<dep, seen, eventsObserved, waitLeader, waitMinion, heap,
                   relations, relRunning, relWait, storageAttachementWatchers,
                   storageRunning, mu, tomb, consumer, snap>>
    /\ UNCHANGED txn

Next ==
    \/ NewWatcher
    \/ StartWatchers
    \/ ClaimLeaderReady
    \/ ClaimLeaderDying
    \/ DyingCase
    \/ SourceClosed
    \/ RefreshFails
    \/ UnitCase
    \/ ServiceCase
    \/ ConfigCase
    \/ AddressesCase
    \/ LeaderSettingsCase
    \/ RelationsCase
    \/ RelationsInitialEvent
    \/ RelationsInitialClosed
    \/ RelationsWaitDying
    \/ RelationUnitsCase
    \/ StorageCase
    \/ StorageLifeFails
    \/ StorageAttachmentCase
    \/ WaitMinionCase
    \/ WaitLeaderCase
    \/ Fire
    \/ Kill
    \/ ClearResolvedMode
    \/ ConsumerReceive
    \/ ConsumerSnapshot

Spec == Init /\ [][Next]_vars

\* The loop goroutine is scheduled: it starts its watchers, it runs fire()
\* after a handled case, and a select whose dying case is ready is not
\* passed over for ever (Go's select chooses uniformly among ready cases).
\* Nothing is assumed of the sources, the store or the consumer.
LoopFairness ==
    /\ WF_vars(StartWatchers)
    /\ WF_vars(Fire)
    /\ WF_vars(ClaimLeaderDying)
    /\ SF_vars(DyingCase)
    /\ WF_vars(RelationsWaitDying)
FairSpec == Init /\ [][Next]_vars /\ LoopFairness

\* ------------------------------------------- transaction runner (companion)
\* src/patches/mgo_1_txn_queue_length_pr463.diff: one Runner, its Run calls
\* one after the other, against the documents' txn-queue fields.

\* Run calls explored.
MaxRuns == 4
\* Largest MaxTxnQueueLength and AssertionCleanupLength explored.
MaxQueueOption == 2
MaxCleanupOption == 2

Docs == {"d0", "d1"}

\* The operation lists handed to Run, in document order.
OpLists ==
    {<<[doc |-> "d0", kind |-> "update"]>>,
     <<[doc |-> "d1", kind |-> "update"]>>,
     <<[doc |-> "d0", kind |-> "update"], [doc |-> "d1", kind |-> "update"]>>,
     <<[doc |-> "d0", kind |-> "assert"], [doc |-> "d1", kind |-> "update"]>>}

\* txn.SetChaos with KillChance 1 at a breakpoint ("": no chaos).
Breakpoints == {"", "set-prepared", "set-applying"}

\* type RunnerOptions, set with SetOptions before the first Run.
RunnerOptions ==
    [MaxTxnQueueLength : 0..MaxQueueOption,
     AssertionCleanupLength : 0..MaxCleanupOption]

\* What Run returned: kind, and for the queue-length error the document and
\* the length it names.
RunErr(kind) == [kind |-> kind, dkey |-> "", n |-> 0]

\* $pullAll of the tokens toks from a txn-queue.
Pull(q, toks) == SelectSeq(q, LAMBDA x : x \notin toks)

\* Line 7 of the patch: is the queue read back after the token was added
\* too long?
queueTooLongOffByOne(opts, infoQueue) ==
    opts.MaxTxnQueueLength > 0 /\ Len(infoQueue) >= opts.MaxTxnQueueLength
queueTooLongIgnoresZero(opts, infoQueue) ==
    Len(infoQueue) > opts.MaxTxnQueueLength
queueTooLong(opts, infoQueue) ==
    opts.MaxTxnQueueLength > 0 /\ Len(infoQueue) > opts.MaxTxnQueueLength

\* Line 40 of the patch: is a cleanup issued for a pure assertion?
cleanupDueStrict(opts, pullAll) ==
    opts.AssertionCleanupLength > 0 /\ Cardinality(pullAll) > opts.AssertionCleanupLength
cleanupDue(opts, pullAll) ==
    opts.AssertionCleanupLength > 0 /\ Cardinality(pullAll) >= opts.AssertionCleanupLength

\* The pull-set of apply for one document: the tokens in its queue, other
\* than the transaction's own, of transactions that are done.
tokensToPull(q, state, tt) ==
    {q[j] : j \in {j \in 1..Len(q) : q[j] # tt /\ state[q[j]] \in {"applied", "aborted"}}}

TxnInit ==
    /\ WatcherInit
    /\ dep.name = "scalars"
    /\ \E opts \in RunnerOptions : \E chaos \in Breakpoints :
         txn = [phase |-> "idle", opts |-> opts, chaos |-> chaos,
                queue |-> [d \in Docs |-> <<>>], state |-> <<>>,
                ops |-> <<>>, i |-> 0, before |-> [d \in Docs |-> <<>>],
                err |-> RunErr("none")]

\* Runner.Run(ops): a new transaction, in state preparing, is flushed.
RunnerRun ==
    /\ txn.phase = "idle"
    /\ Len(txn.state) < MaxRuns
    /\ \E ops \in OpLists :
         txn' = [txn EXCEPT !.phase = "prepare",
                            !.state = Append(@, "preparing"),
                            !.ops = ops, !.i = 1, !.before = txn.queue,
                            !.err = RunErr("running")]
    /\ UNCHANGED watcherVars

\* Lines 3-24 of the patch, one document of the NextDoc loop: the token is
\* added to the document's txn-queue, info.Queue is the queue read back.
FlusherPrepare ==
    /\ txn.phase = "prepare"
    /\ txn.i <= Len(txn.ops)
    /\ LET t == Len(txn.state)
           dkey == txn.ops[txn.i].doc
           info == [Queue |-> Append(txn.queue[dkey], t)]
       IN  txn' = IF queueTooLong(txn.opts, info.Queue)
                  THEN [txn EXCEPT !.queue[dkey] = info.Queue,
                                   !.phase = "abort",
                                   !.err = [kind |-> "tooMany", dkey |-> dkey,
                                            n |-> Len(info.Queue)]]
                  ELSE [txn EXCEPT !.queue[dkey] = info.Queue, !.i = @ + 1]
    /\ UNCHANGED watcherVars

\* Lines 14-20 and 27-35: abortOrReload.  From prepared or preparing the
\* transaction is set aborting and its token pulled from every document
\* touched; then Run returns the error that led here.  If the update of the
\* transaction fails, Run returns that failure and the tokens stay.
FlusherAbortOrReloadPreparedOnly ==
    /\ txn.phase = "abort"
    /\ LET t == Len(txn.state) IN
       \/ /\ txn.state[t] = "prepared"
          /\ txn' = [txn EXCEPT !.state[t] = "aborted",
                                !.queue = [d \in Docs |-> Pull(txn.queue[d], {t})],
                                !.phase = "idle"]
       \/ /\ txn.state[t] # "prepared"
          /\ txn' = [txn EXCEPT !.phase = "idle"]
       \/ txn' = [txn EXCEPT !.err = RunErr("abortErr"), !.phase = "idle"]
    /\ UNCHANGED watcherVars
FlusherAbortOrReloadOneDoc ==
    /\ txn.phase = "abort"
    /\ LET t == Len(txn.state)
           last == txn.ops[IF txn.i <= Len(txn.ops) THEN txn.i ELSE Len(txn.ops)].doc
       IN
       \/ /\ txn.state[t] \in {"prepared", "preparing"}
          /\ txn' = [txn EXCEPT !.state[t] = "aborted",
                                !.queue[last] = Pull(@, {t}),
                                !.phase = "idle"]
       \/ txn' = [txn EXCEPT !.err = RunErr("abortErr"), !.phase = "idle"]
    /\ UNCHANGED watcherVars
FlusherAbortOrReload ==
    /\ txn.phase = "abort"
    /\ LET t == Len(txn.state) IN
       \/ /\ txn.state[t] \in {"prepared", "preparing"}
          /\ txn' = [txn EXCEPT !.state[t] = "aborted",
                                !.queue = [d \in Docs |-> Pull(txn.queue[d], {t})],
                                !.phase = "idle"]
       \/ txn' = [txn EXCEPT !.err = RunErr("abortErr"), !.phase = "idle"]
    /\ UNCHANGED watcherVars

\* Every document is queued: chaos("set-prepared"), then the transaction
\* is set prepared.
FlusherSetPrepared ==
    /\ txn.phase = "prepare"
    /\ txn.i > Len(txn.ops)
    /\ txn' = IF txn.chaos = "set-prepared"
              THEN [txn EXCEPT !.err = RunErr("ErrChaos"), !.phase = "idle"]
              ELSE [txn EXCEPT !.state[Len(txn.state)] = "prepared",
                               !.phase = "prepared"]
    /\ UNCHANGED watcherVars

\* An assertion of the prepared transaction does not hold: abortOrReload,
\* and Run returns ErrAborted.
FlusherAssertFails ==
    /\ txn.phase = "prepared"
    /\ \E j \in 1..Len(txn.ops) : txn.ops[j].kind = "assert"
    /\ txn' = [txn EXCEPT !.phase = "abort", !.err = RunErr("ErrAborted")]
    /\ UNCHANGED watcherVars

\* The assertions hold: chaos("set-applying"), then the transaction is set
\* applying.
FlusherSetApplying ==
    /\ txn.phase = "prepared"
    /\ txn' = IF txn.chaos = "set-applying"
              THEN [txn EXCEPT !.err = RunErr("ErrChaos"), !.phase = "idle"]
              ELSE [txn EXCEPT !.state[Len(txn.state)] = "applying",
                               !.phase = "apply", !.i = 1]
    /\ UNCHANGED watcherVars

\* Lines 36-46 of the patch, one operation of apply: an update pulls the
\* pull-set with its change; a pure assertion pulls it only when a cleanup
\* is due.
FlusherApply ==
    /\ txn.phase = "apply"
    /\ txn.i <= Len(txn.ops)
    /\ LET op == txn.ops[txn.i]
           pullAll == tokensToPull(txn.queue[op.doc], txn.state, Len(txn.state))
       IN  txn' = IF op.kind = "update" \/ cleanupDue(txn.opts, pullAll)
                  THEN [txn EXCEPT !.queue[op.doc] = Pull(@, pullAll),
                                   !.i = @ + 1]
                  ELSE [txn EXCEPT !.i = @ + 1]
    /\ UNCHANGED watcherVars

\* Every operation is applied: the transaction is set applied, Run returns
\* nil.
FlusherApplied ==
    /\ txn.phase = "apply"
    /\ txn.i > Len(txn.ops)
    /\ txn' = [txn EXCEPT !.state[Len(txn.state)] = "applied",
                          !.err = RunErr("nil"), !.phase = "idle"]
    /\ UNCHANGED watcherVars

TxnNext ==
    \/ RunnerRun
    \/ FlusherPrepare
    \/ FlusherAbortOrReload
    \/ FlusherSetPrepared
    \/ FlusherAssertFails
    \/ FlusherSetApplying
    \/ FlusherApply
    \/ FlusherApplied

TxnSpec == TxnInit /\ [][TxnNext]_vars

\* ----------------------------------------------------------------- claims
\* The Snapshot the consumer holds, as the consumer reads it: each relation's
\* Members is what its map holds now.
SnapView ==
    IF snap.taken
    THEN [Relations |-> [id \in DOMAIN snap.Relations |->
                           [Life |-> snap.Relations[id].Life,
                            Members |-> heap[snap.Relations[id].Members]]],
          Storage |-> snap.Storage]
    ELSE NoSnap

\* A signal is sent: the consumer's blocked receive on w.out completes.
SignalSent == consumer = "receiving" /\ consumer' = "signalled"

\* C1: no signal is sent on RemoteStateChanged() before an event of each of
\* the eight primary sources has been handled; repeated events of one source
\* and sub-watcher events do not count for a missing source.
C1_InitialGate == [][SignalSent => seen = PrimarySources]_vars
C1_Witness == consumer = "signalled" /\ seen = PrimarySources /\ ~tomb.dying

\* C2: after the gate is open, changes handled while the consumer is not
\* receiving leave a pending signal, so the consumer is never left blocked in
\* its receive, with the loop idle in its select, while a change it has not
\* been told of is in the Snapshot.
C2_NoLostWakeup ==
    ~(hist.unannounced /\ consumer = "receiving" /\ pc = "select" /\ ~tomb.dying)

\* C3: when the consumer has received a signal, a Snapshot() it calls shows
\* at least the config, address and leader-settings changes whose handlers
\* had returned when the signal was sent.
C3_VisibleAtSignal ==
    consumer = "signalled" =>
        /\ Snapshot(current).ConfigVersion >= hist.sigConfig
        /\ Snapshot(current).LeaderSettingsVersion >= hist.sigLeaderSettings
C3_Witness ==
    /\ consumer = "signalled"
    /\ hist.sigConfig >= 2
    /\ hist.sigLeaderSettings >= 1
    /\ current.ConfigVersion > hist.sigConfig

\* C4: no step of the aggregator changes the Relations map, a relation's
\* Members or the Storage map of a Snapshot returned earlier.
C4_SnapshotIsolation == [][(snap.taken /\ snap' = snap) => SnapView' = SnapView]_vars

\* C5: ConfigVersion and LeaderSettingsVersion never decrease; a step raises
\* ConfigVersion by one exactly when it handles a config or an addresses
\* event, and LeaderSettingsVersion by one exactly when it handles a
\* leader-settings event.
C5_VersionCounters ==
    [][/\ current'.ConfigVersion >= current.ConfigVersion
       /\ current'.LeaderSettingsVersion >= current.LeaderSettingsVersion
       /\ current'.ConfigVersion - current.ConfigVersion
            = hist'.nConfig - hist.nConfig
       /\ current'.LeaderSettingsVersion - current.LeaderSettingsVersion
            = hist'.nLeaderSettings - hist.nLeaderSettings]_vars
C5_Witness ==
    /\ current.ConfigVersion = 3
    /\ {"config", "addresses"} \subseteq seen
    /\ current.LeaderSettingsVersion = 2

\* C6: a change of w.current made by a caller outside the loop (the loop
\* moves on in every step of its own, and holds w.mu while it waits) sets
\* ResolvedMode to None, changes no other field of the Snapshot and nothing
\* else of the watcher, and sends no signal.
C6_ClearResolvedMode ==
    [][(pc' = pc /\ mu = "free" /\ mu' = "free" /\ current' # current) =>
         /\ current' = [current EXCEPT !.ResolvedMode = ResolvedNone]
         /\ heap' = heap
         /\ consumer' = consumer
         /\ <<seen, eventsObserved, relations, relRunning,
              storageAttachementWatchers, storageRunning, tomb>>'
              = <<seen, eventsObserved, relations, relRunning,
                  storageAttachementWatchers, storageRunning, tomb>>]_vars
\* A unit change set ResolvedMode, ClearResolvedMode() cleared it (the unit
\* of this deployment is never reported with ResolvedMode None), and the
\* consumer is blocked in its receive.
C6_Witness ==
    /\ dep.name = "relations"
    /\ "unit" \in seen
    /\ current.ResolvedMode = ResolvedNone
    /\ current.Relations # EmptyMap
    /\ GateOpen
    /\ consumer = "receiving"

\* C7: once the watcher is dead no signal is sent.
C7_NoSignalAfterDead == [][tomb.dead => ~SignalSent]_vars
C7_Witness == tomb.dead /\ consumer = "receiving" /\ hist.unannounced

\* C8 as claimed: after Kill() at most one further signal is sent.
C8_AtMostOneSignalAfterKill == hist.sigAfterKill <= 1
\* C8 as amended: after Kill() the loop sends at most one signal for the
\* iteration in flight when Kill() was called, and at most one for each
\* select case it still handles before it picks the dying case.
C8_SignalsAfterKillBounded == hist.sigAfterKill <= hist.handledAfterKill + 1
C8_Witness == hist.sigAfterKill = 2 /\ hist.handledAfterKill = 1

\* C9: when the watcher is dead every relation-units watcher that was started
\* has been stopped.
C9_RelationWatchersStopped == tomb.dead => relRunning = {}

\* C10: when the watcher is dead every storage-attachment watcher that was
\* started has been stopped.
C10_StorageWatchersStopped == tomb.dead => storageRunning = {}

\* C11: once the tomb is dying (Kill() was called) the watcher eventually is
\* dead, whatever the loop was doing: starting, waiting for the leadership
\* claim, in its select, or waiting in relationsChanged for a new relation's
\* first units event.
C11_EventuallyDead == tomb.dying ~> tomb.dead
C11_Witness ==
    tomb.dead /\ hist.killed /\ tomb.reason = "nil" /\ relRunning # {}

RelationsMatchWatchers ==
    /\ DOMAIN Snapshot(current).Relations = {RelId[k] : k \in DOMAIN relations}
    /\ DOMAIN relations \subseteq relRunning

LiveStorageWatchers == storageAttachementWatchers \cap storageRunning

RunReturned == txn.phase = "idle" /\ txn.err.kind # "none"
\* The documents the Run just returned names.
RunDocs == {txn.ops[j].doc : j \in 1..Len(txn.ops)}

\* C16: with MaxTxnQueueLength = M > 0, a Run naming a document whose
\* txn-queue held M tokens (or more) is rejected: it returns the
\* too-many-transactions error, naming that document and the length M + 1
\* read back, and every txn-queue is as long as before the Run (or, if the
\* abort itself failed, the abort's error); a Run whose documents all held
\* fewer than M tokens never returns that error.
C16_QueueBound ==
    LET M == txn.opts.MaxTxnQueueLength IN
    (RunReturned /\ M > 0) =>
        /\ (\E d \in RunDocs : Len(txn.before[d]) >= M)
               => txn.err.kind \in {"tooMany", "abortErr"}
        /\ txn.err.kind = "tooMany" =>
               /\ Len(txn.before[txn.err.dkey]) >= M
               /\ txn.err.n = Len(txn.before[txn.err.dkey]) + 1
               /\ \A d \in Docs : Len(txn.queue[d]) = Len(txn.before[d])
C16_Witness ==
    /\ RunReturned
    /\ txn.opts.MaxTxnQueueLength = 2
    /\ txn.err = [kind |-> "tooMany", dkey |-> "d0", n |-> 3]
    /\ Len(txn.queue["d0"]) = 2
    /\ txn.chaos = "set-applying"

\* C17: with MaxTxnQueueLength = 0 no Run returns the too-many-transactions
\* error, and a Run interrupted by chaos leaves one more token in the
\* txn-queue of each document it names.
C17_Unlimited ==
    (RunReturned /\ txn.opts.MaxTxnQueueLength = 0) =>
        /\ txn.err.kind # "tooMany"
        /\ txn.err.kind = "ErrChaos" =>
               \A d \in RunDocs : Len(txn.queue[d]) = Len(txn.before[d]) + 1
C17_Witness ==
    /\ RunReturned
    /\ txn.opts.MaxTxnQueueLength = 0
    /\ txn.err.kind = "ErrChaos"
    /\ Len(txn.queue["d0"]) > MaxQueueOption

\* Every Run so far has completed successfully.
AllApplied == \A x \in 1..Len(txn.state) : txn.state[x] = "applied"

\* C18: with AssertionCleanupLength = N > 0, when every Run so far has
\* completed successfully no txn-queue is longer than N at the end of a Run
\* (in particular that of a document that is only asserted on); with
\* AssertionCleanupLength = 0 a successful Run leaves one more token in the
\* txn-queue of each document it only asserts on.
C18_AssertionCleanup ==
    LET N == txn.opts.AssertionCleanupLength IN
    /\ (RunReturned /\ AllApplied /\ N > 0) =>
           \A d \in Docs : Len(txn.queue[d]) <= N
    /\ (RunReturned /\ txn.err.kind = "nil" /\ N = 0) =>
           \A j \in 1..Len(txn.ops) :
               txn.ops[j].kind = "assert" =>
                   Len(txn.queue[txn.ops[j].doc])
                       = Len(txn.before[txn.ops[j].doc]) + 1
C18_Witness ==
    /\ RunReturned
    /\ AllApplied
    /\ txn.opts.AssertionCleanupLength = 2
    /\ txn.ops[1] = [doc |-> "d0", kind |-> "assert"]
    /\ Len(txn.before["d0"]) = 2
    /\ Len(txn.queue["d0"]) = 1

\* C19 (as stated): every signal after the first follows at least one mutation
\* of the Snapshot since the previous signal; no signal is sent for a handled
\* event that changed nothing.
C19_SignalFollowsMutation == [][SignalSent => ~hist.quiet]_vars

\* C19 (amended): every signal is sent by one fire() call, which runs right
\* after one handled select case and returns to the select; the handled event
\* need not have changed the Snapshot.
C19_SignalFollowsHandledEvent == [][SignalSent => pc = "fire" /\ pc' = "select"]_vars

\* A case was handled since the previous signal without changing the Snapshot,
\* and fire() is about to signal the waiting consumer.
C19_Witness ==
    pc = "fire" /\ hist.quiet /\ GateOpen /\ consumer = "receiving" /\ ~tomb.dying

\* C20: the loop never holds the Snapshot mutex while it is blocked on a
\* channel receive: while relationsChanged waits for the first event of a new
\* relation-units watcher, the mutex is free, so Snapshot() and
\* ClearResolvedMode() can go on.
C20_MutexFreeWhileBlocked == pc = "relWait" => mu = "free"

\* The errors a closed primary channel makes the loop return.
ClosedErrs == {EnsureErr[src] : src \in ChannelSources}

\* C21: when the loop, in its select, finds the change channel of a primary
\* source closed, it returns that adapter's error: the watcher is dead and
\* Wait() reports that error (nil was the only reason before), the closure is
\* not counted as an event of any source, the Snapshot is not changed and no
\* signal is sent.
C21_ClosedSourceEndsLoop ==
    [][(pc = "select" /\ ~tomb.dead /\ hist'.loopErr \in ClosedErrs) =>
         /\ pc' = "done"
         /\ tomb'.dead
         /\ tomb.reason \in {"ErrStillAlive", "nil"}
         /\ Wait(tomb') = hist'.loopErr
         /\ seen' \subseteq seen
         /\ eventsObserved' <= eventsObserved
         /\ current' = current
         /\ heap' = heap
         /\ consumer' = consumer]_vars
\* The storage watcher's channel was closed before any storage event was
\* handled, while the consumer was waiting for its first signal.
C21_Witness ==
    /\ tomb.dead
    /\ hist.loopErr = EnsureErr["storage"]
    /\ Wait(tomb) = EnsureErr["storage"]
    /\ consumer = "receiving"
    /\ current.ConfigVersion = 2
    /\ current.Storage = EmptyMap

\* A handler called from the select (or relationsChanged, resumed after its
\* wait) returned an error and the loop returned it.
HandlerFailed ==
    /\ pc \in {"select", "relWait"}
    /\ pc' = "done"
    /\ hist'.loopErr \notin ClosedErrs \cup {"ErrDying"}

\* storageChanged, called now with a key whose result carries an
\* unauthorized error, returns that error (annotated), whatever follows.
StorageResultErrorSurfaced ==
    \A keys \in KeyLists(dep.tags) : \A ans \in [dep.tags -> StorageAnswers] :
        (keys # <<>> /\ ans[Head(keys)] = "unauthorized") =>
            storageChanged(keys, ans,
                [cur |-> current, watchers |-> storageAttachementWatchers,
                 running |-> storageRunning]).status
              = "getting life: unauthorized"

C23_GoneIsTerminalAgent ==
    /\ hist.returned \notin {"notFound", "unauthorized"}
    /\ tomb.dead => Wait(tomb) \notin {"notFound", "unauthorized"}

\* C24: a relation that exists and is not tracked is added in two steps.
\* While relationsChanged waits for the first event of the relation-units
\* watcher it started, the watcher runs, Relations has no entry for the
\* relation and w.mu is held, so no Snapshot() shows one.  When the event has
\* come (as relationsChanged returns, before fire()) Relations[id] has the Life the
\* store reported and a Members map equal to the event's changed set, and
\* the watcher is registered and running.
C24_RelationAdd ==
    /\ pc = "relWait" =>
           /\ relWait.key \in relRunning
           /\ relWait.key \notin DOMAIN relations
           /\ RelId[relWait.key] \notin DOMAIN current.Relations
           /\ mu = "loop"
    /\ (hist.seed.set /\ pc # "done") =>
           LET id == RelId[hist.seed.key] IN
           /\ id \in DOMAIN current.Relations
           /\ current.Relations[id].Life = hist.seed.life
           /\ heap[current.Relations[id].Members] = hist.seed.changed
           /\ hist.seed.key \in DOMAIN relations \cap relRunning
           /\ relations[hist.seed.key] = id
\* The first event of r0's watcher carried {u0: 2}; relationsChanged has
\* returned, the gate is open and the consumer waits for the signal: a
\* Snapshot() has Relations[0] = {Life: alive, Members: {u0: 2}}.
C24_Witness ==
    /\ hist.seed.set
    /\ hist.seed.changed = [u \in {"u0"} |-> 2]
    /\ pc = "fire" /\ GateOpen /\ consumer = "receiving"
    /\ DOMAIN Snapshot(current).Relations = {0}
    /\ Snapshot(current).Relations[0].Life = "alive"
    /\ heap[Snapshot(current).Relations[0].Members] = [u \in {"u0"} |-> 2]

\* The Members of relation id after a relation-units change, written from
\* the change: the units of the previous map and of Changed that have not
\* departed, each with its Changed version if it has one.
MergedMembers(members, change) ==
    [u \in (DOMAIN members \cup DOMAIN change.Changed) \ change.Departed |->
        IF u \in DOMAIN change.Changed THEN change.Changed[u] ELSE members[u]]

\* The relation-units changes a watcher may send, for tracked and untracked
\* relation ids.
RelationUnitsChanges ==
    [relationId : {RelId[k] : k \in DOMAIN RelId}, Changed : MemberMaps,
     Departed : SUBSET Units]

\* C25: whenever the loop can handle a relation-units change, handling it
\* leaves the Members of a tracked relation equal to the previous Members
\* overwritten by the changed versions, without the departed units (a unit
\* both changed and departed is absent), and every other Members map as it
\* was; for an untracked relation id it changes nothing.  The handler does
\* not touch w.current: no Life, no other relation changes.
C25_RelationUnitsDelta ==
    pc = "select" =>
        \A change \in RelationUnitsChanges :
            LET after == relationUnitsChanged(current, heap, change) IN
            IF change.relationId \in DOMAIN current.Relations
            THEN LET a == current.Relations[change.relationId].Members IN
                 /\ DOMAIN after = DOMAIN heap
                 /\ after[a] = MergedMembers(heap[a], change)
                 /\ \A b \in DOMAIN heap \ {a} : after[b] = heap[b]
            ELSE after = heap
\* The loop has just handled a relation-units change for relation 0; its
\* Members are {u1: 2} and the consumer waits for the signal.
C25_Witness ==
    /\ pc = "fire"
    /\ hist.last = "relationUnits"
    /\ ~hist.quiet
    /\ 0 \in DOMAIN current.Relations
    /\ heap[current.Relations[0].Members] = [u \in {"u1"} |-> 2]
    /\ GateOpen /\ consumer = "receiving"

StorState ==
    [cur |-> current, watchers |-> storageAttachementWatchers,
     running |-> storageRunning]

\* C27: whenever the loop can handle a storage change, for every tag T and
\* life: a storage change reporting T with that life returns nil, puts
\* Storage[T] (a new entry, or the old one with only Life replaced) and
\* leaves T with a registered, running attachment watcher, started only if
\* none was registered; a following storage change reporting T not-found
\* returns nil and leaves no Storage[T] and no registered or running
\* watcher of T, everything else being as before the two events: as if T
\* had never been seen.
C27_StorageAddThenGone ==
    pc = "select" =>
        \A tag \in dep.tags : \A life \in RelationLives :
            LET add == storageChanged(<<tag>>, [t \in dep.tags |-> life], StorState)
                gone == storageChanged(<<tag>>, [t \in dep.tags |-> "notFound"],
                                       add.s)
            IN  /\ add.status = "nil"
                /\ tag \in DOMAIN add.s.cur.Storage
                /\ add.s.cur.Storage[tag].Life = life
                /\ tag \in DOMAIN current.Storage =>
                       add.s.cur.Storage[tag]
                         = [current.Storage[tag] EXCEPT !.Life = life]
                /\ add.s.watchers = storageAttachementWatchers \cup {tag}
                /\ add.s.running =
                       IF tag \in storageAttachementWatchers THEN storageRunning
                       ELSE storageRunning \cup {tag}
                /\ gone.status = "nil"
                /\ tag \notin DOMAIN gone.s.cur.Storage
                /\ tag \notin gone.s.watchers \cup gone.s.running
                /\ gone.s.cur = [current EXCEPT !.Storage = MapDel(@, tag)]
                /\ gone.s.watchers = storageAttachementWatchers \ {tag}
                /\ gone.s.running = storageRunning \ {tag}
\* The consumer holds a Snapshot that shows s0; since then a storage change
\* for which the store reported s0 not-found has been handled: no entry, no
\* watcher.
C27_Witness ==
    /\ pc = "fire"
    /\ hist.last = "storage"
    /\ snap.taken
    /\ "s0" \in DOMAIN snap.Storage
    /\ current.Storage = EmptyMap
    /\ storageAttachementWatchers = {}
    /\ storageRunning = {}
    /\ hist.exists = {}

\* The one-shot wait that is armed is the one for the opposite of
\* Snapshot.Leader.
LeaderWaitsArmed ==
    /\ waitMinion <=> current.Leader
    /\ waitLeader <=> ~current.Leader

\* C28: after the initial claim, as long as the loop runs, exactly one of
\* the two waits is armed: WaitMinion if and only if Leader is true,
\* WaitLeader if and only if it is false.  A step of the loop that changes
\* Leader or disarms a wait flips Leader, disarms the wait that fired, arms
\* the opposite one and goes on to fire().
C28_LeadershipFlipFlop ==
    /\ [](pc \in {"select", "fire", "relWait"} => LeaderWaitsArmed)
    /\ [][(pc = "select" /\ pc' # "done"
            /\ (current'.Leader # current.Leader \/ waitMinion' # waitMinion
                   \/ waitLeader' # waitLeader)) =>
              /\ current'.Leader = ~current.Leader
              /\ waitMinion' = ~waitMinion
              /\ waitLeader' = ~waitLeader
              /\ pc' = "fire"]_vars
\* The unit was leader, WaitMinion has fired: Leader is false, WaitLeader is
\* armed, and fire() is about to signal the waiting consumer.
C28_Witness ==
    /\ pc = "fire"
    /\ hist.last = "leadership"
    /\ ~current.Leader
    /\ waitLeader /\ ~waitMinion
    /\ GateOpen /\ consumer = "receiving"

\* C29: a Run rejected because the txn-queue of one of its documents is too
\* long is aborted as a whole.  When Run returns the too-many-transactions
\* error the transaction is aborted and its token is in no txn-queue: every
\* txn-queue, those of the documents queued before the offending one
\* included, is what it was before the Run.  When the abort failed Run
\* returns the abort's error instead, and the transaction is not aborted.
C29_RejectedRunLeavesQueues ==
    RunReturned =>
        LET t == Len(txn.state) IN
        /\ txn.err.kind = "tooMany" =>
               /\ txn.state[t] = "aborted"
               /\ \A d \in Docs : txn.queue[d] = txn.before[d]
               /\ \A d \in Docs : \A j \in 1..Len(txn.queue[d]) : txn.queue[d][j] # t
        /\ txn.err.kind = "abortErr" => txn.state[t] # "aborted"
\* A Run on d0 and d1 was rejected for d1, whose txn-queue held two tokens,
\* after its token had been added to the empty txn-queue of d0.
C29_Witness ==
    /\ RunReturned
    /\ Len(txn.ops) = 2
    /\ txn.err = [kind |-> "tooMany", dkey |-> "d1", n |-> 3]
    /\ txn.queue["d0"] = <<>>
    /\ Len(txn.queue["d1"]) = 2
    /\ txn.state[Len(txn.state)] = "aborted"

\* C30: abortOrReload aborts a transaction from the prepared or from the
\* preparing state, and from no other.  A transaction found to exceed the
\* queue bound is still preparing; when Run returns the
\* too-many-transactions error it is aborted, and a transaction whose Run
\* has returned never changes state again: it is never prepared nor
\* applying.
C30_AbortFromPreparing ==
    /\ [](txn.phase # "off" =>
             LET t == Len(txn.state) IN
             txn.err.kind = "tooMany" =>
                 /\ txn.phase = "abort" => txn.state[t] = "preparing"
                 /\ RunReturned => txn.state[t] = "aborted")
    /\ [][txn.phase # "off" =>
             \A x \in 1..Len(txn.state) :
                 /\ (txn'.state[x] = "aborted" /\ txn.state[x] # "aborted") =>
                        /\ txn.phase = "abort"
                        /\ txn.state[x] \in {"prepared", "preparing"}
                 /\ x < Len(txn.state) => txn'.state[x] = txn.state[x]
                 /\ (RunReturned /\ txn.err.kind = "tooMany") =>
                        txn'.state[x] = txn.state[x]]_vars
\* With MaxTxnQueueLength 1, a Run on d0 alone found two tokens in its
\* txn-queue while preparing: it was aborted and the earlier token stays.
C30_Witness ==
    /\ RunReturned
    /\ txn.opts.MaxTxnQueueLength = 1
    /\ Len(txn.ops) = 1
    /\ txn.err = [kind |-> "tooMany", dkey |-> "d0", n |-> 2]
    /\ Len(txn.state) = 2
    /\ txn.state[1] = "preparing"
    /\ txn.state[2] = "aborted"
    /\ txn.queue["d0"] = <<1>>

====
